---- MODULE Spec2Model ----
(***************************************************************************)
(* State-journaling and bytecode-decommitment core of the multi-version    *)
(* zkEVM: the DecommitterOracle of vm_m6 (oracles/decommitter.rs, the      *)
(* HistoryEnabled instantiation, which is the one that has                 *)
(* rollback_to_timestamp), and the page byte extractor and the timestamp   *)
(* range utilities of vm_m5 (utils.rs).                                    *)
(*                                                                         *)
(* A U256 is modelled by its 32 base-256 digits, least significant first   *)
(* (index 1 is the lowest byte), so that the big-endian codec is a real    *)
(* conversion.  An Option is a sequence of length 0 (None) or 1 (Some).    *)
(***************************************************************************)
EXTENDS Integers, Sequences, FiniteSets, TLC

\* ------------------------------------------------------------------ bounds
MaxTime == 2          \* timestamps are drawn from 0..MaxTime
MaxSteps == 4         \* calls made on one oracle
MaxWords == 3         \* words of the page the byte extractor reads
MaxQueries == 4       \* log queries handed to the timestamp range utilities

\* ------------------------------------------------------- program constants
WordBytes == 32       \* bytes of one U256 word
U16Modulus == 65536   \* `as u16`
ExtractLimit == 16777216   \* 1u32 << 24

\* ----------------------------------------------------------------- helpers
EmptyMap == [x \in {} |-> 0]
Put(m, k, v) == [x \in (DOMAIN m) \cup {k} |-> IF x = k THEN v ELSE m[x]]
Remove(m, k) == [x \in (DOMAIN m) \ {k} |-> m[x]]
Get(m, k) == IF k \in DOMAIN m THEN <<m[k]>> ELSE <<>>
Reverse(s) == [i \in 1..Len(s) |-> s[Len(s) + 1 - i]]

\* U256 with value n < 256
Word(n) == [i \in 1..WordBytes |-> IF i = 1 THEN n ELSE 0]
\* U256::from_big_endian / to_big_endian on a 32-byte buffer
from_big_endian(bytes) == Reverse(bytes)
to_big_endian(word) == Reverse(word)
to_little_endian(word) == word

\* ------------------------------------------------------ hashes and storage
\* A code hash: bytes 2..3 carry the length in words, the rest identifies it.
HashA == [id |-> 1, len |-> 2]
HashB == [id |-> 2, len |-> 1]
Hashes == {HashA, HashB}
Pages == {1, 2}
Time == 0..MaxTime

\* utils::bytecode::bytecode_len_in_words: the length is recomputed from the hash
bytecode_len_in_words(hash) == hash.len

\* utils::bytecode::bytes_to_be_words: 32-byte chunks, each read big-endian
RECURSIVE bytes_to_be_words(_)
bytes_to_be_words(bytes) ==
    IF Len(bytes) = 0 THEN <<>>
    ELSE <<from_big_endian(SubSeq(bytes, 1, WordBytes))>>
         \o bytes_to_be_words(SubSeq(bytes, WordBytes + 1, Len(bytes)))

\* The Storage collaborator: HashA is a factory dependency of two words,
\* HashB is unknown to Storage.
StoredBytes == to_big_endian(Word(1)) \o to_big_endian(Word(2))
load_factory_dep(hash) == IF hash = HashA THEN <<StoredBytes>> ELSE <<>>

\* What the bootloader may hand to populate: other words for HashA than Storage
\* holds, and HashB twice in one call (the later pair wins).
PopulateArgs == {<< <<HashA, <<Word(2)>>>> >>,
                 << <<HashB, <<Word(3), Word(1)>>>>, <<HashB, <<Word(3)>>>> >>}
\* The narrower inputs of the longer runs: HashB alone is populated.
ReplayPopulateArgs == {<< <<HashB, <<Word(3)>>>> >>}

\* ------------------------------------------------------- History Recorder
\* HistoryRecorder<HashMap<K, V>, HistoryEnabled>: [inner, history]; a history
\* entry is the timestamp, the key and the value the key had before (an Option).
NewRecorder == [inner |-> EmptyMap, history |-> <<>>]
NewVecRecorder == [inner |-> <<>>, history |-> <<>>]

\* insert(key, value, timestamp): log the prior state, then set the key
MapInsert(rec, key, value, timestamp) ==
    [inner |-> Put(rec.inner, key, value),
     history |-> Append(rec.history,
                        [ts |-> timestamp, key |-> key, value |-> Get(rec.inner, key)])]

\* restoring one popped entry: the previous value, or absence as removal
MapRestore(inner, entry) ==
    IF entry.value = <<>> THEN Remove(inner, entry.key)
    ELSE Put(inner, entry.key, entry.value[1])

\* a rollback that undoes at most one entry (an `if` where the loop belongs)
MapRollbackOnce(rec, timestamp) ==
    IF rec.history # <<>> /\ rec.history[Len(rec.history)].ts >= timestamp
    THEN [inner |-> MapRestore(rec.inner, rec.history[Len(rec.history)]),
          history |-> SubSeq(rec.history, 1, Len(rec.history) - 1)]
    ELSE rec

\* rollback_to_timestamp(t): pop entries from the end while their timestamp >= t
RECURSIVE MapRollback(_, _)
MapRollback(rec, timestamp) ==
    IF rec.history # <<>> /\ rec.history[Len(rec.history)].ts >= timestamp
    THEN MapRollback([inner |-> MapRestore(rec.inner, rec.history[Len(rec.history)]),
                      history |-> SubSeq(rec.history, 1, Len(rec.history) - 1)],
                     timestamp)
    ELSE rec

\* HistoryRecorder<Vec<()>, HistoryEnabled>: push logs its inverse, a pop
VecPush(rec, value, timestamp) ==
    [inner |-> Append(rec.inner, value),
     history |-> Append(rec.history, [ts |-> timestamp, event |-> "Pop"])]

RECURSIVE VecRollback(_, _)
VecRollback(rec, timestamp) ==
    IF rec.history # <<>> /\ rec.history[Len(rec.history)].ts >= timestamp
    THEN VecRollback([inner |-> SubSeq(rec.inner, 1, Len(rec.inner) - 1),
                      history |-> SubSeq(rec.history, 1, Len(rec.history) - 1)],
                     timestamp)
    ELSE rec

\* delete_history(): the log is dropped, the container stays
DeleteHistory(rec) == [inner |-> rec.inner, history |-> <<>>]

\* ------------------------------------------------------ Decommitter Oracle
\* `self` is [known_bytecodes, decommitted_code_hashes, decommitment_requests].

\* get_bytecode that goes to Storage without looking at the cache
get_bytecode_ignores_cache(self, hash, timestamp) ==
    IF load_factory_dep(hash) = <<>>
    THEN [panicked |-> TRUE, value |-> <<>>,
          known_bytecodes |-> self.known_bytecodes, loaded |-> <<hash>>]
    ELSE LET value == bytes_to_be_words(load_factory_dep(hash)[1])
         IN [panicked |-> FALSE, value |-> value,
             known_bytecodes |-> MapInsert(self.known_bytecodes, hash, value, timestamp),
             loaded |-> <<hash>>]

\* get_bytecode that asks Storage first and falls back to the cache
get_bytecode_prefers_storage(self, hash, timestamp) ==
    IF load_factory_dep(hash) # <<>>
    THEN LET value == bytes_to_be_words(load_factory_dep(hash)[1])
         IN [panicked |-> FALSE, value |-> value,
             known_bytecodes |-> MapInsert(self.known_bytecodes, hash, value, timestamp),
             loaded |-> <<hash>>]
    ELSE IF hash \in DOMAIN self.known_bytecodes.inner
    THEN [panicked |-> FALSE, value |-> self.known_bytecodes.inner[hash],
          known_bytecodes |-> self.known_bytecodes, loaded |-> <<hash>>]
    ELSE [panicked |-> TRUE, value |-> <<>>,
          known_bytecodes |-> self.known_bytecodes, loaded |-> <<hash>>]

\* get_bytecode with `unwrap_or_default` where `expect` belongs
get_bytecode_defaults(self, hash, timestamp) ==
    IF hash \in DOMAIN self.known_bytecodes.inner
    THEN [panicked |-> FALSE, value |-> self.known_bytecodes.inner[hash],
          known_bytecodes |-> self.known_bytecodes, loaded |-> <<>>]
    ELSE LET value == IF load_factory_dep(hash) = <<>> THEN <<>>
                      ELSE bytes_to_be_words(load_factory_dep(hash)[1])
         IN [panicked |-> FALSE, value |-> value,
             known_bytecodes |-> MapInsert(self.known_bytecodes, hash, value, timestamp),
             loaded |-> <<hash>>]

\* get_bytecode that hands out what Storage holds without memoizing it
get_bytecode_without_memo(self, hash, timestamp) ==
    IF hash \in DOMAIN self.known_bytecodes.inner
    THEN [panicked |-> FALSE, value |-> self.known_bytecodes.inner[hash],
          known_bytecodes |-> self.known_bytecodes, loaded |-> <<>>]
    ELSE IF load_factory_dep(hash) = <<>>
    THEN [panicked |-> TRUE, value |-> <<>>,
          known_bytecodes |-> self.known_bytecodes, loaded |-> <<hash>>]
    ELSE [panicked |-> FALSE, value |-> bytes_to_be_words(load_factory_dep(hash)[1]),
          known_bytecodes |-> self.known_bytecodes, loaded |-> <<hash>>]

\* get_bytecode: the cache first, Storage on a miss (memoized under `timestamp`);
\* `expect` panics when Storage does not know the hash.
get_bytecode(self, hash, timestamp) ==
    IF hash \in DOMAIN self.known_bytecodes.inner
    THEN [panicked |-> FALSE, value |-> self.known_bytecodes.inner[hash],
          known_bytecodes |-> self.known_bytecodes, loaded |-> <<>>]
    ELSE IF load_factory_dep(hash) = <<>>
    THEN [panicked |-> TRUE, value |-> <<>>,
          known_bytecodes |-> self.known_bytecodes, loaded |-> <<hash>>]
    ELSE LET value == bytes_to_be_words(load_factory_dep(hash)[1])
         IN [panicked |-> FALSE, value |-> value,
             known_bytecodes |-> MapInsert(self.known_bytecodes, hash, value, timestamp),
             loaded |-> <<hash>>]

\* populate: one insert per pair, in order, all under the same timestamp
RECURSIVE populate(_, _, _)
populate(known, bytecodes, timestamp) ==
    IF bytecodes = <<>> THEN known
    ELSE populate(MapInsert(known, bytecodes[1][1], bytecodes[1][2], timestamp),
                  Tail(bytecodes), timestamp)

\* rollbacks that forget one of the recorders, or are one tick early
rollback_keeps_known_bytecodes(self, timestamp) ==
    [decommitted_code_hashes |-> MapRollback(self.decommitted_code_hashes, timestamp),
     known_bytecodes |-> self.known_bytecodes,
     decommitment_requests |-> VecRollback(self.decommitment_requests, timestamp)]
rollback_keeps_requests(self, timestamp) ==
    [decommitted_code_hashes |-> MapRollback(self.decommitted_code_hashes, timestamp),
     known_bytecodes |-> MapRollback(self.known_bytecodes, timestamp),
     decommitment_requests |-> self.decommitment_requests]
rollback_keeps_decommitted(self, timestamp) ==
    [decommitted_code_hashes |-> self.decommitted_code_hashes,
     known_bytecodes |-> MapRollback(self.known_bytecodes, timestamp),
     decommitment_requests |-> VecRollback(self.decommitment_requests, timestamp)]
rollback_one_early(self, timestamp) ==
    [decommitted_code_hashes |-> MapRollback(self.decommitted_code_hashes, timestamp - 1),
     known_bytecodes |-> MapRollback(self.known_bytecodes, timestamp - 1),
     decommitment_requests |-> VecRollback(self.decommitment_requests, timestamp - 1)]

\* OracleWithHistory::rollback_to_timestamp: all three recorders
rollback_to_timestamp(self, timestamp) ==
    [decommitted_code_hashes |-> MapRollback(self.decommitted_code_hashes, timestamp),
     known_bytecodes |-> MapRollback(self.known_bytecodes, timestamp),
     decommitment_requests |-> VecRollback(self.decommitment_requests, timestamp)]

\* delete_history that leaves the log of known_bytecodes in place
delete_history_keeps_known_log(self) ==
    [decommitted_code_hashes |-> DeleteHistory(self.decommitted_code_hashes),
     known_bytecodes |-> self.known_bytecodes,
     decommitment_requests |-> DeleteHistory(self.decommitment_requests)]

\* DecommitterOracle::delete_history
delete_history(self) ==
    [decommitted_code_hashes |-> DeleteHistory(self.decommitted_code_hashes),
     known_bytecodes |-> DeleteHistory(self.known_bytecodes),
     decommitment_requests |-> DeleteHistory(self.decommitment_requests)]

\* `.iter().rev().take_while(|(t, _)| *t >= timestamp).count()`, the reversed
\* iterator standing at entry i of the history
RECURSIVE CountWhile(_, _, _)
CountWhile(history, timestamp, i) ==
    IF i = 0 THEN 0
    ELSE IF history[i].ts >= timestamp
    THEN 1 + CountWhile(history, timestamp, i - 1)
    ELSE 0

\* DecommitterOracle::get_decommitted_bytecodes_after_timestamp
get_decommitted_bytecodes_after_timestamp(self, timestamp) ==
    CountWhile(self.decommitted_code_hashes.history, timestamp,
               Len(self.decommitted_code_hashes.history))

\* the MemoryQuery handed to Memory::specialized_code_query for word i (from 0)
CodeWrite(timestamp, page, i, value) ==
    [timestamp |-> timestamp, memory_type |-> "Code", page |-> page,
     index |-> i, value |-> value, rw_flag |-> TRUE]

\* the loop with word indices counted from 1
CodeWritesFromOne(values, page, timestamp) ==
    [i \in 1..Len(values) |-> CodeWrite(timestamp, page, i, values[i])]

\* the loop over values.iter().enumerate(), the same in both modes
CodeWrites(values, page, timestamp) ==
    [i \in 1..Len(values) |-> CodeWrite(timestamp, page, i - 1, values[i])]

\* decommit_into_memory whose repeat path hands back the page of the request
decommit_repeat_keeps_request_page(self, witness, hash, page, timestamp) ==
    LET requests == VecPush(self.decommitment_requests, "unit", timestamp)
        pushed == [self EXCEPT !.decommitment_requests = requests]
    IN  IF hash \in DOMAIN self.decommitted_code_hashes.inner
        THEN [panicked |-> FALSE, self |-> pushed,
              is_fresh |-> FALSE,
              memory_page |-> page,
              decommitted_length |-> bytecode_len_in_words(hash),
              words |-> <<>>, writes |-> <<>>, loaded |-> <<>>]
        ELSE LET got == get_bytecode(pushed, hash, timestamp)
             IN  IF got.panicked
                 THEN [panicked |-> TRUE, self |-> pushed,
                       is_fresh |-> FALSE, memory_page |-> page,
                       decommitted_length |-> 0,
                       words |-> <<>>, writes |-> <<>>, loaded |-> got.loaded]
                 ELSE [panicked |-> FALSE,
                       self |-> [known_bytecodes |-> got.known_bytecodes,
                                 decommitted_code_hashes |->
                                     MapInsert(self.decommitted_code_hashes,
                                               hash, page, timestamp),
                                 decommitment_requests |-> requests],
                       is_fresh |-> TRUE, memory_page |-> page,
                       decommitted_length |-> Len(got.value) % U16Modulus,
                       words |-> IF witness THEN <<got.value>> ELSE <<>>,
                       writes |-> CodeWrites(got.value, page, timestamp),
                       loaded |-> got.loaded]

\* decommit_into_memory that returns the words in either mode
decommit_returns_words(self, witness, hash, page, timestamp) ==
    LET requests == VecPush(self.decommitment_requests, "unit", timestamp)
        pushed == [self EXCEPT !.decommitment_requests = requests]
    IN  IF hash \in DOMAIN self.decommitted_code_hashes.inner
        THEN [panicked |-> FALSE, self |-> pushed,
              is_fresh |-> FALSE,
              memory_page |-> self.decommitted_code_hashes.inner[hash],
              decommitted_length |-> bytecode_len_in_words(hash),
              words |-> <<>>, writes |-> <<>>, loaded |-> <<>>]
        ELSE LET got == get_bytecode(pushed, hash, timestamp)
             IN  IF got.panicked
                 THEN [panicked |-> TRUE, self |-> pushed,
                       is_fresh |-> FALSE, memory_page |-> page,
                       decommitted_length |-> 0,
                       words |-> <<>>, writes |-> <<>>, loaded |-> got.loaded]
                 ELSE [panicked |-> FALSE,
                       self |-> [known_bytecodes |-> got.known_bytecodes,
                                 decommitted_code_hashes |->
                                     MapInsert(self.decommitted_code_hashes,
                                               hash, page, timestamp),
                                 decommitment_requests |-> requests],
                       is_fresh |-> TRUE, memory_page |-> page,
                       decommitted_length |-> Len(got.value) % U16Modulus,
                       words |-> <<got.value>>,
                       writes |-> CodeWrites(got.value, page, timestamp),
                       loaded |-> got.loaded]

\* decommit_into_memory that records the request only once the bytecode is resolved
decommit_records_resolved(self, witness, hash, page, timestamp) ==
    LET requests == VecPush(self.decommitment_requests, "unit", timestamp)
        pushed == [self EXCEPT !.decommitment_requests = requests]
    IN  IF hash \in DOMAIN self.decommitted_code_hashes.inner
        THEN [panicked |-> FALSE, self |-> pushed,
              is_fresh |-> FALSE,
              memory_page |-> self.decommitted_code_hashes.inner[hash],
              decommitted_length |-> bytecode_len_in_words(hash),
              words |-> <<>>, writes |-> <<>>, loaded |-> <<>>]
        ELSE LET got == get_bytecode(self, hash, timestamp)
             IN  IF got.panicked
                 THEN [panicked |-> TRUE, self |-> self,
                       is_fresh |-> FALSE, memory_page |-> page,
                       decommitted_length |-> 0,
                       words |-> <<>>, writes |-> <<>>, loaded |-> got.loaded]
                 ELSE [panicked |-> FALSE,
                       self |-> [known_bytecodes |-> got.known_bytecodes,
                                 decommitted_code_hashes |->
                                     MapInsert(self.decommitted_code_hashes,
                                               hash, page, timestamp),
                                 decommitment_requests |-> requests],
                       is_fresh |-> TRUE, memory_page |-> page,
                       decommitted_length |-> Len(got.value) % U16Modulus,
                       words |-> IF witness THEN <<got.value>> ELSE <<>>,
                       writes |-> CodeWrites(got.value, page, timestamp),
                       loaded |-> got.loaded]

\* decommit_into_memory that records the page again on a repeat decommit
decommit_records_repeat(self, witness, hash, page, timestamp) ==
    LET requests == VecPush(self.decommitment_requests, "unit", timestamp)
        pushed == [self EXCEPT !.decommitment_requests = requests]
    IN  IF hash \in DOMAIN self.decommitted_code_hashes.inner
        THEN [panicked |-> FALSE,
              self |-> [pushed EXCEPT !.decommitted_code_hashes =
                           MapInsert(self.decommitted_code_hashes, hash,
                                     self.decommitted_code_hashes.inner[hash],
                                     timestamp)],
              is_fresh |-> FALSE,
              memory_page |-> self.decommitted_code_hashes.inner[hash],
              decommitted_length |-> bytecode_len_in_words(hash),
              words |-> <<>>, writes |-> <<>>, loaded |-> <<>>]
        ELSE LET got == get_bytecode(pushed, hash, timestamp)
             IN  IF got.panicked
                 THEN [panicked |-> TRUE, self |-> pushed,
                       is_fresh |-> FALSE, memory_page |-> page,
                       decommitted_length |-> 0,
                       words |-> <<>>, writes |-> <<>>, loaded |-> got.loaded]
                 ELSE [panicked |-> FALSE,
                       self |-> [known_bytecodes |-> got.known_bytecodes,
                                 decommitted_code_hashes |->
                                     MapInsert(self.decommitted_code_hashes,
                                               hash, page, timestamp),
                                 decommitment_requests |-> requests],
                       is_fresh |-> TRUE, memory_page |-> page,
                       decommitted_length |-> Len(got.value) % U16Modulus,
                       words |-> IF witness THEN <<got.value>> ELSE <<>>,
                       writes |-> CodeWrites(got.value, page, timestamp),
                       loaded |-> got.loaded]

\* decommit_into_memory whose fresh path does not record the page
decommit_forgets_page(self, witness, hash, page, timestamp) ==
    LET requests == VecPush(self.decommitment_requests, "unit", timestamp)
        pushed == [self EXCEPT !.decommitment_requests = requests]
    IN  IF hash \in DOMAIN self.decommitted_code_hashes.inner
        THEN [panicked |-> FALSE, self |-> pushed,
              is_fresh |-> FALSE,
              memory_page |-> self.decommitted_code_hashes.inner[hash],
              decommitted_length |-> bytecode_len_in_words(hash),
              words |-> <<>>, writes |-> <<>>, loaded |-> <<>>]
        ELSE LET got == get_bytecode(pushed, hash, timestamp)
             IN  [panicked |-> got.panicked,
                  self |-> [pushed EXCEPT !.known_bytecodes = got.known_bytecodes],
                  is_fresh |-> ~got.panicked, memory_page |-> page,
                  decommitted_length |-> Len(got.value) % U16Modulus,
                  words |-> IF witness /\ ~got.panicked THEN <<got.value>> ELSE <<>>,
                  writes |-> CodeWrites(got.value, page, timestamp),
                  loaded |-> got.loaded]

\* decommit_into_memory(partial_query) in mode B = witness.  The result holds
\* the oracle after the call, the query as returned, the Option of words, the
\* memory writes issued and the hashes asked from Storage.  Each mode has its
\* own loop over the words.
decommit_into_memory(self, witness, hash, page, timestamp) ==
    LET requests == VecPush(self.decommitment_requests, "unit", timestamp)
        pushed == [self EXCEPT !.decommitment_requests = requests]
    IN  IF hash \in DOMAIN self.decommitted_code_hashes.inner
        THEN [panicked |-> FALSE, self |-> pushed,
              is_fresh |-> FALSE,
              memory_page |-> self.decommitted_code_hashes.inner[hash],
              decommitted_length |-> bytecode_len_in_words(hash),
              words |-> <<>>, writes |-> <<>>, loaded |-> <<>>]
        ELSE LET got == get_bytecode(pushed, hash, timestamp)
             IN  IF got.panicked
                 THEN [panicked |-> TRUE, self |-> pushed,
                       is_fresh |-> FALSE, memory_page |-> page,
                       decommitted_length |-> 0,
                       words |-> <<>>, writes |-> <<>>, loaded |-> got.loaded]
                 ELSE LET fresh ==
                              [panicked |-> FALSE,
                               self |-> [known_bytecodes |-> got.known_bytecodes,
                                         decommitted_code_hashes |->
                                             MapInsert(self.decommitted_code_hashes,
                                                       hash, page, timestamp),
                                         decommitment_requests |-> requests],
                               is_fresh |-> TRUE, memory_page |-> page,
                               decommitted_length |-> Len(got.value) % U16Modulus,
                               words |-> <<>>, writes |-> <<>>,
                               loaded |-> got.loaded]
                      IN  IF witness
                          THEN [fresh EXCEPT
                                   !.writes = CodeWrites(got.value, page, timestamp),
                                   !.words = <<got.value>>]
                          ELSE [fresh EXCEPT
                                   !.writes = CodeWrites(got.value, page, timestamp)]

\* ------------------------------------------------------ Page Byte Extractor
\* IntoFixedLengthByteIterator<32> for U256
into_le_iter(word) == to_little_endian(word)
into_be_iter(word) == to_big_endian(word)

\* SimpleMemory::dump_page_content_as_u256_words(page, first..last): the words
\* of the page at the indices of the range (from 0), zero where nothing was written
dump_page_content_as_u256_words(page, first, last) ==
    [i \in 1..(last - first) |->
        IF first + i <= Len(page) THEN page[first + i] ELSE Word(0)]

\* `for next in it { if remaining > 0 { dump.push(next); remaining -= 1; } }`,
\* the iterator `it` standing at its i-th byte
RECURSIVE PushBytes(_, _, _)
PushBytes(it, i, acc) ==
    IF i > Len(it) THEN acc
    ELSE IF acc.remaining > 0
    THEN PushBytes(it, i + 1, [dump |-> Append(acc.dump, it[i]),
                               remaining |-> acc.remaining - 1])
    ELSE PushBytes(it, i + 1, acc)

\* `for word in page_part.into_iter()`, at the w-th word of page_part: the first
\* word skips `unalignment` bytes
RECURSIVE DumpWords(_, _, _, _, _)
DumpWords(page_part, w, is_first, unalignment, acc) ==
    IF w > Len(page_part) THEN acc
    ELSE LET it == into_be_iter(page_part[w])
             pushed == IF is_first
                       THEN PushBytes(it, unalignment + 1, acc)
                       ELSE PushBytes(it, 1, acc)
         IN DumpWords(page_part, w + 1, FALSE, unalignment, pushed)

\* the extractor that returns on a zero length before it checks the bounds
dump_zero_length_first(page, offset, length) ==
    IF length = 0
    THEN [done |-> TRUE, panicked |-> FALSE, dump |-> <<>>, reads |-> <<>>]
    ELSE IF ~(offset < ExtractLimit) \/ ~(length < ExtractLimit)
    THEN [done |-> TRUE, panicked |-> TRUE, dump |-> <<>>, reads |-> <<>>]
    ELSE LET first_word == offset \div WordBytes
             end_byte == offset + length
             last_word == IF end_byte % WordBytes # 0
                          THEN end_byte \div WordBytes + 1
                          ELSE end_byte \div WordBytes
             unalignment == offset % WordBytes
             page_part == dump_page_content_as_u256_words(page, first_word, last_word)
             acc == DumpWords(page_part, 1, TRUE, unalignment,
                              [dump |-> <<>>, remaining |-> length])
         IN [done |-> TRUE, panicked |-> Len(acc.dump) # length, dump |-> acc.dump,
             reads |-> <<[first |-> first_word, last |-> last_word]>>]

\* the extractor with last_word not rounded up
dump_without_round_up(page, offset, length) ==
    IF ~(offset < ExtractLimit) \/ ~(length < ExtractLimit)
    THEN [done |-> TRUE, panicked |-> TRUE, dump |-> <<>>, reads |-> <<>>]
    ELSE IF length = 0
    THEN [done |-> TRUE, panicked |-> FALSE, dump |-> <<>>, reads |-> <<>>]
    ELSE LET first_word == offset \div WordBytes
             end_byte == offset + length
             last_word == end_byte \div WordBytes
             unalignment == offset % WordBytes
             page_part == dump_page_content_as_u256_words(page, first_word, last_word)
             acc == DumpWords(page_part, 1, TRUE, unalignment,
                              [dump |-> <<>>, remaining |-> length])
         IN [done |-> TRUE, panicked |-> Len(acc.dump) # length, dump |-> acc.dump,
             reads |-> <<[first |-> first_word, last |-> last_word]>>]

\* dump_memory_page_by_offset_and_length(memory, page, offset, length), `page`
\* being the content of the page read; a failed assert is `panicked`
dump_memory_page_by_offset_and_length(page, offset, length) ==
    IF ~(offset < ExtractLimit) \/ ~(length < ExtractLimit)
    THEN [done |-> TRUE, panicked |-> TRUE, dump |-> <<>>, reads |-> <<>>]
    ELSE IF length = 0
    THEN [done |-> TRUE, panicked |-> FALSE, dump |-> <<>>, reads |-> <<>>]
    ELSE LET first_word == offset \div WordBytes
             end_byte == offset + length
             last_word == IF end_byte % WordBytes # 0
                          THEN end_byte \div WordBytes + 1
                          ELSE end_byte \div WordBytes
             unalignment == offset % WordBytes
             page_part == dump_page_content_as_u256_words(page, first_word, last_word)
             acc == DumpWords(page_part, 1, TRUE, unalignment,
                              [dump |-> <<>>, remaining |-> length])
         IN [done |-> TRUE, panicked |-> Len(acc.dump) # length, dump |-> acc.dump,
             reads |-> <<[first |-> first_word, last |-> last_word]>>]

\* The byte strings written to the page, MaxWords words long
PageBytes == MaxWords * WordBytes
ByteStrings == {[i \in 1..PageBytes |-> (7 * i) % 256],
                [i \in 1..PageBytes |-> (i * i + 3) % 256]}
\* the page that holds a byte string: its words are the big-endian encoding
PageOf(bytes) == bytes_to_be_words(bytes)

\* The windows asked for: every window inside the string, and the edges of the
\* 2^24 bound
DumpInputs ==
    {[given |-> TRUE, bytes |-> b, offset |-> o, length |-> l] :
        b \in ByteStrings,
        o \in 0..(MaxWords * WordBytes),
        l \in 0..(MaxWords * WordBytes)}
DumpWindows ==
    {d \in DumpInputs : d.offset + d.length <= PageBytes}
    \cup {[given |-> TRUE, bytes |-> b, offset |-> w[1], length |-> w[2]] :
            b \in ByteStrings,
            w \in {<<ExtractLimit, 0>>, <<ExtractLimit, 1>>, <<0, ExtractLimit>>,
                    <<ExtractLimit - 1, 0>>, <<1, ExtractLimit + 1>>,
                    <<ExtractLimit + 1, ExtractLimit>>}}

\* ------------------------------------------------ Timestamp range utilities
\* a LogQuery: its timestamp, and the rest of it (here its rank in the log)
LogQuery(timestamp, rank) == [timestamp |-> timestamp, rank |-> rank]

\* `.take_while(|log_query| log_query.timestamp >= from_timestamp)` on an
\* iterator standing at its i-th element
RECURSIVE TakeWhile(_, _, _, _)
TakeWhile(it, from_timestamp, i, acc) ==
    IF i > Len(it) THEN acc
    ELSE IF it[i].timestamp >= from_timestamp
    THEN TakeWhile(it, from_timestamp, i + 1, Append(acc, it[i]))
    ELSE acc

\* collect_log_queries_after_timestamp: reverse, take while, reverse again
collect_log_queries_after_timestamp(all_log_queries, from_timestamp) ==
    Reverse(TakeWhile(Reverse(all_log_queries), from_timestamp, 1, <<>>))

\* slice::partition_point(|t| *t < from_timestamp): the binary search over
\* [left, right), indices from 0
RECURSIVE partition_point(_, _, _, _)
partition_point(sorted_timestamps, from_timestamp, left, right) ==
    IF left = right THEN left
    ELSE LET mid == left + (right - left) \div 2
         IN IF sorted_timestamps[mid + 1] < from_timestamp
            THEN partition_point(sorted_timestamps, from_timestamp, mid + 1, right)
            ELSE partition_point(sorted_timestamps, from_timestamp, left, mid)

\* the count of the timestamps strictly after from_timestamp
precompile_calls_count_strictly_after(sorted_timestamps, from_timestamp) ==
    Len(sorted_timestamps)
        - partition_point(sorted_timestamps, from_timestamp + 1,
                          0, Len(sorted_timestamps))

\* precompile_calls_count_after_timestamp
precompile_calls_count_after_timestamp(sorted_timestamps, from_timestamp) ==
    Len(sorted_timestamps)
        - partition_point(sorted_timestamps, from_timestamp,
                          0, Len(sorted_timestamps))

\* The logs handed over: up to MaxQueries queries sorted by non-decreasing
\* timestamp (duplicates and the empty log included), and thresholds from below
\* the earliest to above the latest timestamp.
QueryTimes == 1..(MaxTime + 1)
Thresholds == 0..(MaxTime + 2)
SortedTimestamps ==
    {ts \in UNION {[1..n -> QueryTimes] : n \in 0..MaxQueries} :
        \A i \in 1..(Len(ts) - 1) : ts[i] <= ts[i + 1]}
LogInputs ==
    {[given |-> TRUE,
      all_log_queries |-> [i \in 1..Len(ts) |-> LogQuery(ts[i], i)],
      from_timestamp |-> from_timestamp] :
        ts \in SortedTimestamps, from_timestamp \in Thresholds}
TimestampsOf(queries) == [i \in 1..Len(queries) |-> queries[i].timestamp]

\* ----------------------------------------------- lengths of fresh decommits
\* A bytecode of n words, for populate: its content does not matter here
ZeroWord == Word(0)
Bytecode(n) == [i \in 1..n |-> ZeroWord]

\* The fresh decommits looked at: every short bytecode under every query, and
\* bytecodes around the 2^16 words that decommitted_length (a u16) can hold
LengthInputs ==
    {[given |-> TRUE, words |-> n, hash |-> hash, page |-> page,
      timestamp |-> timestamp, witness |-> witness] :
        n \in 0..MaxWords, hash \in Hashes, page \in Pages,
        timestamp \in Time, witness \in BOOLEAN}
    \cup {[given |-> TRUE, words |-> n, hash |-> HashB, page |-> 1,
            timestamp |-> 0, witness |-> FALSE] :
            n \in {U16Modulus - 1, U16Modulus, U16Modulus + 1}}

\* ------------------------------------------------------------------ state
VARIABLES
    B,                        \* const B: witness-producing mode
    known_bytecodes,          \* HistoryRecorder<HashMap<U256, Vec<U256>>>
    decommitted_code_hashes,  \* HistoryRecorder<HashMap<U256, u32>>
    decommitment_requests,    \* HistoryRecorder<Vec<()>>
    clock,                    \* timestamp of the latest populate/decommit call; the
                              \* next call is at the same instant or one tick later
    steps,                    \* calls made so far
    budget,                   \* calls this run may make
    pc,                       \* "running", or "aborted" after a panic
    ret,                      \* the latest call: its arguments and what it returned
    old,                      \* the oracle and the bookkeeping before the latest call
    trace,                    \* the populate/decommit calls not rolled back, each
                              \* with the containers as they were before it
    history_deleted,          \* delete_history has been called
    loads,                    \* load_factory_dep calls so far, per hash
    since_rollback,           \* hashes decommitted / loaded since the last rollback
    recorded_length,          \* hash -> length its latest fresh decommit returned
    scenario,                 \* progress of: fresh at t1, again at t2, rollback(t1), again at t3
    fresh_at,                 \* hash -> timestamp and page of its latest fresh decommit
    call_count,               \* decommit_into_memory / rollback_to_timestamp calls so far
    populated,                \* the pairs handed to populate and not rolled back
    at_delete,                \* the containers as the latest delete_history left them
    dump_in,                  \* arguments of dump_memory_page_by_offset_and_length
    dump_out,                 \* its outcome
    log_in,                   \* a log and a threshold for the range utilities
    log_out,                  \* what the two utilities returned (Options)
    length_in,                \* a bytecode length and a query for a fresh decommit
    length_out                \* what that decommit reported and how much it wrote

oracle_vars == <<B, known_bytecodes, decommitted_code_hashes, decommitment_requests,
                 clock, steps, budget, pc, ret, old, trace, history_deleted, loads, since_rollback,
                 recorded_length, scenario, fresh_at, call_count, populated, at_delete>>
dump_vars == <<dump_in, dump_out>>
log_vars == <<log_in, log_out>>
length_vars == <<length_in, length_out>>
vars == <<B, known_bytecodes, decommitted_code_hashes, decommitment_requests,
          clock, steps, budget, pc, ret, old, trace, history_deleted, loads, since_rollback,
          recorded_length, scenario, fresh_at, call_count, populated, at_delete,
          dump_in, dump_out, log_in, log_out, length_in, length_out>>

\* DecommitterOracle::new: three empty recorders
NewOracle == [known_bytecodes |-> NewRecorder,
              decommitted_code_hashes |-> NewRecorder,
              decommitment_requests |-> NewVecRecorder]
\* the containers of an oracle, without the logs
Containers(self) ==
    [known_bytecodes |-> self.known_bytecodes.inner,
     decommitted_code_hashes |-> self.decommitted_code_hashes.inner,
     decommitment_requests |-> self.decommitment_requests.inner]

Self == [known_bytecodes |-> known_bytecodes,
         decommitted_code_hashes |-> decommitted_code_hashes,
         decommitment_requests |-> decommitment_requests]

\* what `old` keeps of the state a call starts from
Before == [known_bytecodes |-> known_bytecodes,
           decommitted_code_hashes |-> decommitted_code_hashes,
           decommitment_requests |-> decommitment_requests,
           trace |-> trace, history_deleted |-> history_deleted,
           since_rollback |-> since_rollback, loads |-> loads,
           populated |-> populated]

NoRet == [op |-> "new", t |-> 0, hash |-> HashA, page |-> 0, bytecodes |-> <<>>,
          returned |-> TRUE, is_fresh |-> FALSE, memory_page |-> 0,
          decommitted_length |-> 0, words |-> <<>>, writes |-> <<>>,
          loaded |-> <<>>, prev_op |-> "new", prev_t |-> 0]

NoScenario == [stage |-> 0, hash |-> HashA, page |-> 0, t1 |-> 0, t2 |-> 0]
NoDump == [given |-> FALSE, bytes |-> <<>>, offset |-> 0, length |-> 0]
NoLog == [given |-> FALSE, all_log_queries |-> <<>>, from_timestamp |-> 0]
NoLogOut == [collected |-> <<>>, count |-> <<>>]
NoLength == [given |-> FALSE, words |-> 0, hash |-> HashA, page |-> 0,
             timestamp |-> 0, witness |-> FALSE]
NoLengthOut == [done |-> FALSE, is_fresh |-> FALSE, decommitted_length |-> 0,
                writes |-> 0]
NoDumpOut == [done |-> FALSE, panicked |-> FALSE, dump |-> <<>>, reads |-> <<>>]

\* the observer of the decommit / decommit / rollback / decommit sequence
NextScenario(s, r) ==
    IF r.op = "decommit" /\ s.stage = 3 /\ r.hash = s.hash /\ r.t > s.t2
    THEN [s EXCEPT !.stage = 4]
    ELSE IF r.op = "decommit" /\ s.stage = 1 /\ r.hash = s.hash /\ r.t > s.t1
                              /\ r.returned /\ ~r.is_fresh
    THEN [s EXCEPT !.stage = 2, !.t2 = r.t]
    ELSE IF r.op = "decommit" /\ r.returned /\ r.is_fresh
    THEN [stage |-> 1, hash |-> r.hash, page |-> r.page, t1 |-> r.t, t2 |-> 0]
    ELSE IF r.op = "rollback" /\ s.stage = 2 /\ r.t = s.t1
    THEN [s EXCEPT !.stage = 3]
    ELSE NoScenario

\* DecommitterOracle::new, in one of the modes `witnesses`, for a run of `calls` calls
OracleInit(witnesses, calls) ==
    /\ B \in witnesses
    /\ known_bytecodes = NewRecorder
    /\ decommitted_code_hashes = NewRecorder
    /\ decommitment_requests = NewVecRecorder
    /\ clock = 0
    /\ steps = 0
    /\ budget = calls
    /\ pc = "running"
    /\ ret = NoRet
    /\ old = [known_bytecodes |-> NewRecorder,
              decommitted_code_hashes |-> NewRecorder,
              decommitment_requests |-> NewVecRecorder,
              trace |-> <<>>, history_deleted |-> FALSE,
              since_rollback |-> [called |-> {}, loaded |-> {}],
              loads |-> [h \in Hashes |-> 0],
              populated |-> <<>>]
    /\ trace = <<>>
    /\ history_deleted = FALSE
    /\ loads = [h \in Hashes |-> 0]
    /\ since_rollback = [called |-> {}, loaded |-> {}]
    /\ recorded_length = EmptyMap
    /\ scenario = NoScenario
    /\ fresh_at = EmptyMap
    /\ call_count = [decommit |-> 0, rollback |-> 0]
    /\ populated = <<>>
    /\ at_delete = Containers(NewOracle)

Init ==
    /\ OracleInit(BOOLEAN, MaxSteps)
    /\ dump_in = NoDump
    /\ dump_out = NoDumpOut
    /\ log_in = NoLog
    /\ log_out = NoLogOut
    /\ length_in = NoLength
    /\ length_out = NoLengthOut

SetOracle(self) ==
    /\ known_bytecodes' = self.known_bytecodes
    /\ decommitted_code_hashes' = self.decommitted_code_hashes
    /\ decommitment_requests' = self.decommitment_requests

TraceEntry(timestamp, kbins, fresh, isreq) ==
    [ts |-> timestamp, kb |-> known_bytecodes.inner,
     dch |-> decommitted_code_hashes.inner,
     nreq |-> Len(decommitment_requests.inner),
     kbins |-> kbins, fresh |-> fresh, isreq |-> isreq]

Populate(bytecodes, timestamp) ==
    /\ pc = "running"
    /\ steps < budget
    /\ steps' = steps + 1
    /\ timestamp \in {clock, clock + 1}
    /\ known_bytecodes' = populate(known_bytecodes, bytecodes, timestamp)
    /\ clock' = timestamp
    /\ ret' = [NoRet EXCEPT !.op = "populate", !.t = timestamp,
                            !.bytecodes = bytecodes,
                            !.prev_op = ret.op, !.prev_t = ret.t]
    /\ trace' = Append(trace, TraceEntry(timestamp, Len(bytecodes), <<>>, FALSE))
    /\ old' = Before
    /\ scenario' = NextScenario(scenario, ret')
    /\ populated' = populated \o
           [i \in 1..Len(bytecodes) |->
               [ts |-> timestamp, hash |-> bytecodes[i][1], words |-> bytecodes[i][2],
                permanent |-> FALSE]]
    /\ UNCHANGED <<B, budget, decommitted_code_hashes, decommitment_requests, pc,
                   history_deleted, loads, since_rollback, recorded_length,
                   fresh_at, call_count, at_delete>>
    /\ UNCHANGED dump_vars
    /\ UNCHANGED log_vars
    /\ UNCHANGED length_vars

Decommit(hash, page, timestamp) ==
    LET res == decommit_into_memory(Self, B, hash, page, timestamp)
    IN  /\ pc = "running"
        /\ steps < budget
        /\ steps' = steps + 1
        /\ timestamp \in {clock, clock + 1}
        /\ SetOracle(res.self)
        /\ clock' = timestamp
        /\ pc' = IF res.panicked THEN "aborted" ELSE "running"
        /\ ret' = [NoRet EXCEPT !.op = "decommit", !.t = timestamp, !.hash = hash,
                                !.page = page, !.returned = ~res.panicked,
                                !.is_fresh = res.is_fresh,
                                !.memory_page = res.memory_page,
                                !.decommitted_length = res.decommitted_length,
                                !.words = res.words, !.writes = res.writes,
                                !.loaded = res.loaded,
                                !.prev_op = ret.op, !.prev_t = ret.t]
        /\ trace' = Append(trace,
                           TraceEntry(timestamp,
                                      Len(res.self.known_bytecodes.history)
                                          - Len(known_bytecodes.history),
                                      IF res.is_fresh
                                      THEN <<[hash |-> hash, page |-> page]>>
                                      ELSE <<>>,
                                      TRUE))
        /\ loads' = [h \in Hashes |->
                        loads[h] + Cardinality({i \in 1..Len(res.loaded) :
                                                    res.loaded[i] = h})]
        /\ since_rollback' =
               [called |-> since_rollback.called \cup {hash},
                loaded |-> since_rollback.loaded
                               \cup {res.loaded[i] : i \in 1..Len(res.loaded)}]
        /\ recorded_length' = IF res.is_fresh
                              THEN Put(recorded_length, hash, res.decommitted_length)
                              ELSE recorded_length
        /\ old' = Before
        /\ scenario' = NextScenario(scenario, ret')
        /\ fresh_at' = IF res.is_fresh
                       THEN Put(fresh_at, hash, [t |-> timestamp, page |-> page])
                       ELSE fresh_at
        /\ call_count' = [call_count EXCEPT !.decommit = @ + 1]
        /\ UNCHANGED <<B, budget, history_deleted, populated, at_delete>>
        /\ UNCHANGED dump_vars
        /\ UNCHANGED log_vars
        /\ UNCHANGED length_vars

Rollback(timestamp) ==
    /\ pc = "running"
    /\ steps < budget
    /\ steps' = steps + 1
    /\ SetOracle(rollback_to_timestamp(Self, timestamp))
    /\ ret' = [NoRet EXCEPT !.op = "rollback", !.t = timestamp,
                            !.prev_op = ret.op, !.prev_t = ret.t]
    /\ trace' = SelectSeq(trace, LAMBDA e : e.ts < timestamp)
    /\ since_rollback' = [called |-> {}, loaded |-> {}]
    /\ old' = Before
    /\ scenario' = NextScenario(scenario, ret')
    /\ call_count' = [call_count EXCEPT !.rollback = @ + 1]
    /\ populated' = SelectSeq(populated, LAMBDA e : e.permanent \/ e.ts < timestamp)
    /\ UNCHANGED <<B, budget, clock, pc, history_deleted, loads, recorded_length,
                   fresh_at, at_delete>>
    /\ UNCHANGED dump_vars
    /\ UNCHANGED log_vars
    /\ UNCHANGED length_vars

DeleteHistoryCall ==
    /\ pc = "running"
    /\ steps < budget
    /\ steps' = steps + 1
    /\ SetOracle(delete_history(Self))
    /\ ret' = [NoRet EXCEPT !.op = "delete_history",
                            !.prev_op = ret.op, !.prev_t = ret.t]
    /\ history_deleted' = TRUE
    /\ old' = Before
    /\ scenario' = NextScenario(scenario, ret')
    /\ populated' = [i \in 1..Len(populated) |-> [populated[i] EXCEPT !.permanent = TRUE]]
    /\ at_delete' = Containers(Self)
    /\ UNCHANGED <<B, budget, clock, pc, trace, loads, since_rollback, recorded_length,
                   fresh_at, call_count>>
    /\ UNCHANGED dump_vars
    /\ UNCHANGED log_vars
    /\ UNCHANGED length_vars

Next ==
    \/ \E bytecodes \in PopulateArgs, timestamp \in Time : Populate(bytecodes, timestamp)
    \/ \E hash \in Hashes, page \in Pages, timestamp \in Time :
           Decommit(hash, page, timestamp)
    \/ \E timestamp \in Time : Rollback(timestamp)
    \/ DeleteHistoryCall

Spec == Init /\ [][Next]_vars

\* Longer runs over narrower inputs: one more call, non-witness mode, and
\* HashB the only populated hash.
InitReplay ==
    /\ OracleInit({FALSE}, MaxSteps + 1)
    /\ dump_in = NoDump
    /\ dump_out = NoDumpOut
    /\ log_in = NoLog
    /\ log_out = NoLogOut
    /\ length_in = NoLength
    /\ length_out = NoLengthOut

NextReplay ==
    \/ \E bytecodes \in ReplayPopulateArgs, timestamp \in Time :
           Populate(bytecodes, timestamp)
    \/ \E hash \in Hashes, page \in Pages, timestamp \in Time :
           Decommit(hash, page, timestamp)
    \/ \E timestamp \in Time : Rollback(timestamp)
    \/ DeleteHistoryCall

SpecReplay == InitReplay /\ [][NextReplay]_vars

\* The page byte extractor on its own: one call per run
InitDump ==
    /\ OracleInit({FALSE}, 0)
    /\ dump_in \in DumpWindows
    /\ dump_out = NoDumpOut
    /\ log_in = NoLog
    /\ log_out = NoLogOut
    /\ length_in = NoLength
    /\ length_out = NoLengthOut

Dump ==
    /\ dump_in.given
    /\ ~dump_out.done
    /\ dump_out' = dump_memory_page_by_offset_and_length(
                        PageOf(dump_in.bytes), dump_in.offset, dump_in.length)
    /\ UNCHANGED dump_in
    /\ UNCHANGED oracle_vars
    /\ UNCHANGED log_vars
    /\ UNCHANGED length_vars

NextDump == Dump

SpecDump == InitDump /\ [][NextDump]_vars

\* The timestamp range utilities on their own: each is called once on the log
InitSuffix ==
    /\ OracleInit({FALSE}, 0)
    /\ dump_in = NoDump
    /\ dump_out = NoDumpOut
    /\ log_in \in LogInputs
    /\ log_out = NoLogOut
    /\ length_in = NoLength
    /\ length_out = NoLengthOut

Collect ==
    /\ log_in.given
    /\ log_out.collected = <<>>
    /\ log_out' = [log_out EXCEPT !.collected =
                       <<collect_log_queries_after_timestamp(
                             log_in.all_log_queries, log_in.from_timestamp)>>]
    /\ UNCHANGED log_in
    /\ UNCHANGED oracle_vars
    /\ UNCHANGED dump_vars
    /\ UNCHANGED length_vars

Count ==
    /\ log_in.given
    /\ log_out.count = <<>>
    /\ log_out' = [log_out EXCEPT !.count =
                       <<precompile_calls_count_after_timestamp(
                             TimestampsOf(log_in.all_log_queries),
                             log_in.from_timestamp)>>]
    /\ UNCHANGED log_in
    /\ UNCHANGED oracle_vars
    /\ UNCHANGED dump_vars
    /\ UNCHANGED length_vars

NextSuffix == Collect \/ Count

SpecSuffix == InitSuffix /\ [][NextSuffix]_vars

\* Fresh decommits of populated bytecodes of a given length, one per run:
\* populate on a new oracle, then decommit_into_memory; only the length
\* reported and the number of writes issued are kept.
InitLength ==
    /\ OracleInit({FALSE}, 0)
    /\ dump_in = NoDump
    /\ dump_out = NoDumpOut
    /\ log_in = NoLog
    /\ log_out = NoLogOut
    /\ length_in \in LengthInputs
    /\ length_out = NoLengthOut

FreshLength ==
    LET known == populate(NewRecorder,
                          << <<length_in.hash, Bytecode(length_in.words)>> >>,
                          length_in.timestamp)
        res == decommit_into_memory([NewOracle EXCEPT !.known_bytecodes = known],
                                    length_in.witness, length_in.hash,
                                    length_in.page, length_in.timestamp)
    IN  /\ length_in.given
        /\ ~length_out.done
        /\ length_out' = [done |-> TRUE, is_fresh |-> res.is_fresh,
                          decommitted_length |-> res.decommitted_length,
                          writes |-> Len(res.writes)]
        /\ UNCHANGED length_in
        /\ UNCHANGED oracle_vars
        /\ UNCHANGED dump_vars
        /\ UNCHANGED log_vars

NextLength == FreshLength

SpecLength == InitLength /\ [][NextLength]_vars

\* ============================================================= properties
OldSelf == [known_bytecodes |-> old.known_bytecodes,
            decommitted_code_hashes |-> old.decommitted_code_hashes,
            decommitment_requests |-> old.decommitment_requests]
StrictlyIncreasing(entries) ==
    \A i \in 1..(Len(entries) - 1) : entries[i].ts < entries[i + 1].ts
\* the calls of a trace that inserted into known_bytecodes / decommitted_code_hashes
KnownInserts(tr) == SelectSeq(tr, LAMBDA e : e.kbins > 0)
FreshInserts(tr) == SelectSeq(tr, LAMBDA e : e.fresh # <<>>)
OneInsertEach(tr) == \A i \in 1..Len(tr) : tr[i].kbins <= 1
\* the inserts made so far came one per timestamp, and nothing was deleted
InsertSequence ==
    /\ ret.op = "rollback"
    /\ ~old.history_deleted
    /\ OneInsertEach(old.trace)
    /\ StrictlyIncreasing(KnownInserts(old.trace))
    /\ StrictlyIncreasing(FreshInserts(old.trace))

\* C1: after inserts at strictly increasing timestamps t1 < ... < tn,
\* rollback_to_timestamp(tk) leaves the container exactly as it was right before
\* the k-th insert (checked on known_bytecodes, whose keys are overwritten, and
\* on decommitted_code_hashes).
C1_RollbackCorrectness ==
    InsertSequence =>
        /\ \A k \in 1..Len(KnownInserts(old.trace)) :
               KnownInserts(old.trace)[k].ts = ret.t
                   => known_bytecodes.inner = KnownInserts(old.trace)[k].kb
        /\ \A k \in 1..Len(FreshInserts(old.trace)) :
               FreshInserts(old.trace)[k].ts = ret.t
                   => decommitted_code_hashes.inner = FreshInserts(old.trace)[k].dch

\* C1 witness: a rollback to the timestamp of the second insert undid an
\* overwrite: the key is still there, with its earlier value.
C1_Witness ==
    /\ InsertSequence
    /\ Len(KnownInserts(old.trace)) >= 2
    /\ KnownInserts(old.trace)[2].ts = ret.t
    /\ known_bytecodes.inner # old.known_bytecodes.inner
    /\ DOMAIN known_bytecodes.inner = DOMAIN old.known_bytecodes.inner
    /\ known_bytecodes.inner # EmptyMap

\* the scenario's last decommit did what a fresh decommit does
ReplayedFresh ==
    /\ ret.returned
    /\ ret.is_fresh
    /\ scenario.hash \in DOMAIN decommitted_code_hashes.inner
    /\ decommitted_code_hashes.inner[scenario.hash] = ret.page
    /\ scenario.hash \in DOMAIN known_bytecodes.inner
    /\ Len(ret.writes) = Len(known_bytecodes.inner[scenario.hash])
    /\ Len(ret.writes) > 0
    /\ \A i \in 1..Len(ret.writes) :
           /\ ret.writes[i].value = known_bytecodes.inner[scenario.hash][i]
           /\ ret.writes[i].page = ret.page
           /\ ret.writes[i].index = i - 1
\* after the rollback the bytecode of the scenario's hash can still be resolved
StillResolvable ==
    \/ scenario.hash \in DOMAIN old.known_bytecodes.inner
    \/ load_factory_dep(scenario.hash) # <<>>

C3_DecommitMemoization ==
    (ret.op = "decommit" /\ ret.hash \in old.since_rollback.called)
        => ret.returned /\ ~ret.is_fresh /\ ret.writes = <<>>

\* C3 witness: a second decommit of a hash, asking for another page than the
\* one recorded.
C3_Witness ==
    /\ ret.op = "decommit"
    /\ ret.hash \in old.since_rollback.called
    /\ ret.page # ret.memory_page

\* hash -> page of the fresh decommits of a trace
FreshMap(tr) ==
    [h \in {tr[i].fresh[1].hash : i \in {j \in 1..Len(tr) : tr[j].fresh # <<>>}} |->
        tr[CHOOSE i \in 1..Len(tr) : tr[i].fresh # <<>> /\ tr[i].fresh[1].hash = h]
            .fresh[1].page]
Kept(tr, t) == SelectSeq(tr, LAMBDA e : e.ts < t)
Undone(tr, t) == {i \in 1..Len(tr) : tr[i].ts >= t}
MinOf(S) == CHOOSE x \in S : \A y \in S : x <= y
MaxOf(S) == CHOOSE x \in S : \A y \in S : x >= y

\* C4: after populate and decommit calls at non-decreasing timestamps,
\* rollback_to_timestamp(t) leaves decommitted_code_hashes with exactly the
\* hashes (and pages) freshly decommitted before t, known_bytecodes as it was
\* before the first call at or after t, and the request log with exactly the
\* requests made before t.
C4_OracleRollbackRestores ==
    (ret.op = "rollback" /\ ~old.history_deleted) =>
        /\ decommitted_code_hashes.inner = FreshMap(Kept(old.trace, ret.t))
        /\ known_bytecodes.inner =
               IF Undone(old.trace, ret.t) = {} THEN old.known_bytecodes.inner
               ELSE old.trace[MinOf(Undone(old.trace, ret.t))].kb
        /\ Len(decommitment_requests.inner) =
               Cardinality({i \in 1..Len(old.trace) :
                                old.trace[i].isreq /\ old.trace[i].ts < ret.t})

\* C4 witness: a rollback that kept part of each container and undid the rest.
C4_Witness ==
    /\ ret.op = "rollback"
    /\ ~old.history_deleted
    /\ decommitted_code_hashes.inner # EmptyMap
    /\ decommitted_code_hashes.inner # old.decommitted_code_hashes.inner
    /\ known_bytecodes.inner # old.known_bytecodes.inner
    /\ Len(decommitment_requests.inner) >= 1
    /\ Len(decommitment_requests.inner) < Len(old.decommitment_requests.inner)

\* C5: a rollback_to_timestamp(t) that directly follows a rollback to the same
\* or an earlier timestamp changes no container and no log.
C5_RollbackIdempotent ==
    (ret.op = "rollback" /\ ret.prev_op = "rollback" /\ ret.t >= ret.prev_t)
        => Self = OldSelf

\* C5 witness: two rollbacks to the same timestamp in a row, after a rollback
\* has evicted a bytecode that had been loaded from Storage.
C5_Witness ==
    /\ ret.op = "rollback"
    /\ ret.prev_op = "rollback"
    /\ ret.t = ret.prev_t
    /\ loads[HashA] = 1
    /\ HashA \notin DOMAIN known_bytecodes.inner

\* the timestamps of the latest entry of each history log
LastEventTimes(o) ==
    {o.known_bytecodes.history[i].ts :
        i \in {Len(o.known_bytecodes.history)} \ {0}}
    \cup {o.decommitted_code_hashes.history[i].ts :
        i \in {Len(o.decommitted_code_hashes.history)} \ {0}}
    \cup {o.decommitment_requests.history[i].ts :
        i \in {Len(o.decommitment_requests.history)} \ {0}}

\* C6 (as stated): with the most recent logged event at tl,
\* rollback_to_timestamp(t) for any t >= tl, t = tl included, changes nothing.
C6_AsStated ==
    (ret.op = "rollback" /\ LastEventTimes(old) # {}
        /\ ret.t >= MaxOf(LastEventTimes(old)))
        => Self = OldSelf

\* C6 (amended): rollback_to_timestamp(t) changes nothing for any t > tl; at
\* t = tl it undoes the events logged at tl.
C6_RollbackAfterLastEvent ==
    (ret.op = "rollback" /\ LastEventTimes(old) # {}
        /\ ret.t > MaxOf(LastEventTimes(old)))
        => Self = OldSelf

\* C6 witness: a rollback to the tick right after the latest logged event.
C6_Witness ==
    /\ ret.op = "rollback"
    /\ LastEventTimes(old) # {}
    /\ ret.t = MaxOf(LastEventTimes(old)) + 1
    /\ old.known_bytecodes.history # <<>>
    /\ old.decommitted_code_hashes.history # <<>>

C8_RepeatReportsRecordedLength ==
    (ret.op = "decommit" /\ ret.returned /\ ~ret.is_fresh)
        => /\ ret.hash \in DOMAIN recorded_length
           /\ ret.decommitted_length = recorded_length[ret.hash]

\* C9: a decommit of a hash that neither known_bytecodes nor Storage holds
\* aborts: nothing is returned, nothing is added to decommitted_code_hashes or
\* known_bytecodes, no memory write is issued.
C9_MissingHashAborts ==
    (ret.op = "decommit" /\ ret.hash \notin DOMAIN old.known_bytecodes.inner
        /\ load_factory_dep(ret.hash) = <<>>)
        => /\ pc = "aborted"
           /\ ~ret.returned
           /\ ret.words = <<>>
           /\ ret.writes = <<>>
           /\ known_bytecodes = old.known_bytecodes
           /\ decommitted_code_hashes = old.decommitted_code_hashes

\* C9 witness: the oracle aborted on HashB after other calls had succeeded.
C9_Witness ==
    /\ pc = "aborted"
    /\ ret.op = "decommit"
    /\ ret.hash = HashB
    /\ known_bytecodes.inner # EmptyMap

\* a window that lies inside the byte string
InsideWindow ==
    /\ dump_out.done
    /\ dump_in.offset + dump_in.length <= PageBytes

\* C10: for a page holding the big-endian encoding of a byte string, the
\* extractor returns exactly bytes [offset, offset + length) of the string,
\* and as many bytes as were asked for.
C10_ExtractionRoundTrip ==
    InsideWindow =>
        /\ ~dump_out.panicked
        /\ Len(dump_out.dump) = dump_in.length
        /\ dump_out.dump = SubSeq(dump_in.bytes, dump_in.offset + 1,
                                  dump_in.offset + dump_in.length)

\* C10 witness: a window that starts in the middle of the first word and ends
\* in the middle of the third.
C10_Witness ==
    /\ InsideWindow
    /\ dump_in.offset % WordBytes # 0
    /\ dump_in.offset \div WordBytes = 0
    /\ (dump_in.offset + dump_in.length) % WordBytes # 0
    /\ (dump_in.offset + dump_in.length) \div WordBytes = 2
    /\ Len(dump_out.dump) = dump_in.length

\* an argument at or above the 2^24 bound
OutOfBound ==
    /\ dump_out.done
    /\ (dump_in.offset >= ExtractLimit \/ dump_in.length >= ExtractLimit)

\* C11: dump_memory_page_by_offset_and_length with offset >= 2^24 or
\* length >= 2^24 aborts before any page read and returns no byte string, also
\* when the other argument is 0; arguments below the bound do not abort.
C11_ExtractionBoundEnforced ==
    /\ OutOfBound => dump_out.panicked /\ dump_out.dump = <<>> /\ dump_out.reads = <<>>
    /\ (dump_out.done /\ ~OutOfBound /\ dump_in.length = 0) => ~dump_out.panicked

\* C11 witness: offset = 2^24 with length 0 aborted.
C11_Witness ==
    /\ OutOfBound
    /\ dump_in.offset = ExtractLimit
    /\ dump_in.length = 0
    /\ dump_out.panicked

\* the elements of the log at or after the threshold
AtOrAfter ==
    {i \in 1..Len(log_in.all_log_queries) :
        log_in.all_log_queries[i].timestamp >= log_in.from_timestamp}

\* C12: on a log sorted by non-decreasing timestamp and any threshold T, the
\* count of precompile_calls_count_after_timestamp and the length of what
\* collect_log_queries_after_timestamp returns are both the number of elements
\* with timestamp >= T, and what is collected is that suffix in its order.
C12_SuffixUtilitiesAgree ==
    /\ log_out.count # <<>> => log_out.count[1] = Cardinality(AtOrAfter)
    /\ log_out.collected # <<>> =>
           /\ Len(log_out.collected[1]) = Cardinality(AtOrAfter)
           /\ log_out.collected[1] =
                  SubSeq(log_in.all_log_queries,
                         Len(log_in.all_log_queries) - Cardinality(AtOrAfter) + 1,
                         Len(log_in.all_log_queries))
    /\ (log_out.count # <<>> /\ log_out.collected # <<>>)
           => log_out.count[1] = Len(log_out.collected[1])

\* C12 witness: the threshold is a timestamp that occurs twice in the log,
\* after an earlier one; both utilities returned and part of the log is taken.
C12_Witness ==
    /\ log_out.count # <<>>
    /\ log_out.collected # <<>>
    /\ Len(log_in.all_log_queries) = 4
    /\ log_in.all_log_queries[1].timestamp < log_in.from_timestamp
    /\ log_in.all_log_queries[2].timestamp = log_in.from_timestamp
    /\ log_in.all_log_queries[3].timestamp = log_in.from_timestamp
    /\ log_out.count[1] = 3

\* the entries a hash has in the history of decommitted_code_hashes
EventsOf(h) ==
    {i \in 1..Len(decommitted_code_hashes.history) :
        decommitted_code_hashes.history[i].key = h}

LoggedHashes ==
    DOMAIN decommitted_code_hashes.inner \ DOMAIN at_delete.decommitted_code_hashes

C14_EveryRequestRecorded ==
    /\ ret.op = "decommit" =>
           /\ decommitment_requests.inner =
                  Append(old.decommitment_requests.inner, "unit")
           /\ decommitment_requests.history =
                  Append(old.decommitment_requests.history,
                         [ts |-> ret.t, event |-> "Pop"])
    /\ call_count.rollback = 0 =>
           Len(decommitment_requests.inner) = call_count.decommit

\* C14 witness: a fresh decommit, a repeat one and one that aborted on a
\* missing hash left three requests in the log.
C14_Witness ==
    /\ pc = "aborted"
    /\ ret.op = "decommit"
    /\ call_count = [decommit |-> 3, rollback |-> 0]
    /\ Cardinality(DOMAIN fresh_at) = 1
    /\ Len(decommitment_requests.inner) = 3
    /\ decommitment_requests.history[3].ts = ret.t

\* the bytecode a decommit of `hash` resolves to in the oracle before the call:
\* the known words if there are any, else the words of the bytes Storage holds
ResolvedBytecode(hash) ==
    IF hash \in DOMAIN old.known_bytecodes.inner
    THEN old.known_bytecodes.inner[hash]
    ELSE bytes_to_be_words(load_factory_dep(hash)[1])

\* C15: a fresh decommit of a bytecode of n words issues exactly n memory
\* writes, all of kind code to the page the query asked for, at word indices
\* 0, 1, ..., n-1 in that order, the write at index i carrying word i, and it
\* records hash -> that page in decommitted_code_hashes.
C15_FreshDecommitWrites ==
    (ret.op = "decommit" /\ ret.is_fresh) =>
        /\ Len(ret.writes) = Len(ResolvedBytecode(ret.hash))
        /\ \A i \in 1..Len(ret.writes) :
               ret.writes[i] = [timestamp |-> ret.t, memory_type |-> "Code",
                                page |-> ret.page, index |-> i - 1,
                                value |-> ResolvedBytecode(ret.hash)[i],
                                rw_flag |-> TRUE]
        /\ decommitted_code_hashes.inner =
               Put(old.decommitted_code_hashes.inner, ret.hash, ret.page)

\* C15 witness: the two words Storage holds for HashA were written to page 2
\* while another hash already had page 1.
C15_Witness ==
    /\ ret.op = "decommit"
    /\ ret.is_fresh
    /\ ret.hash = HashA
    /\ ret.page = 2
    /\ Len(ret.writes) = 2
    /\ ret.writes[2].index = 1
    /\ ret.writes[2].value = Word(2)
    /\ HashB \in DOMAIN decommitted_code_hashes.inner
    /\ decommitted_code_hashes.inner[HashA] = 2

\* C16: a fresh decommit reports the word count of the bytecode as its length,
\* which is also the number of memory writes it issued, for every bytecode
\* length, 2^16 words and more included.
C16_FreshLengthIsWordCount ==
    (length_out.done /\ length_out.is_fresh) =>
        /\ length_out.decommitted_length = length_in.words
        /\ length_out.decommitted_length = length_out.writes

\* the pairs populate was given for a hash, among those not rolled back
PopulatedFor(pairs, h) == SelectSeq(pairs, LAMBDA e : e.hash = h)
LatestWords(pairs, h) == PopulatedFor(pairs, h)[Len(PopulatedFor(pairs, h))].words
WrittenWords == [i \in 1..Len(ret.writes) |-> ret.writes[i].value]

\* C17: once populate has inserted words W for hash H and no rollback has
\* undone it, a decommit of H that is not a repeat is fresh, writes exactly W
\* (the words of the latest such populate) and does not call load_factory_dep,
\* also when Storage holds other bytes for H.
C17_PopulatedTakesPrecedence ==
    (ret.op = "decommit"
        /\ PopulatedFor(old.populated, ret.hash) # <<>>
        /\ ret.hash \notin DOMAIN old.decommitted_code_hashes.inner)
        => /\ ret.is_fresh
           /\ ret.loaded = <<>>
           /\ loads = old.loads
           /\ WrittenWords = LatestWords(old.populated, ret.hash)

\* C17 witness: HashA had been loaded from Storage and rolled back, then
\* populated with one other word; its fresh decommit wrote that word.
C17_Witness ==
    /\ ret.op = "decommit"
    /\ ret.is_fresh
    /\ ret.hash = HashA
    /\ PopulatedFor(old.populated, HashA) # <<>>
    /\ loads[HashA] = 1
    /\ WrittenWords = <<Word(2)>>
    /\ WrittenWords # bytes_to_be_words(load_factory_dep(HashA)[1])

\* what was in the containers at the latest delete_history is still there
KeptSinceDelete ==
    /\ \A h \in DOMAIN at_delete.decommitted_code_hashes :
           /\ h \in DOMAIN decommitted_code_hashes.inner
           /\ decommitted_code_hashes.inner[h] = at_delete.decommitted_code_hashes[h]
    /\ \A h \in DOMAIN at_delete.known_bytecodes :
           h \in DOMAIN known_bytecodes.inner
    /\ Len(decommitment_requests.inner) >= Len(at_delete.decommitment_requests)

\* C18: delete_history leaves known_bytecodes, decommitted_code_hashes and the
\* request log as they were and empties the three history logs; a later
\* rollback_to_timestamp(t), for any t, undoes nothing that happened before
\* delete_history, and rollback_to_timestamp(0) returns exactly to the
\* containers delete_history left.
C18_DeleteHistoryKeepsContainers ==
    /\ ret.op = "delete_history" =>
           /\ Containers(Self) = Containers(OldSelf)
           /\ known_bytecodes.history = <<>>
           /\ decommitted_code_hashes.history = <<>>
           /\ decommitment_requests.history = <<>>
    /\ (ret.op = "rollback" /\ old.history_deleted) =>
           /\ KeptSinceDelete
           /\ ret.t = 0 => Containers(Self) = at_delete

\* C18 witness: after delete_history more calls were made and a rollback to 0
\* undid them, and only them.
C18_Witness ==
    /\ ret.op = "rollback"
    /\ ret.t = 0
    /\ old.history_deleted
    /\ Containers(Self) # Containers(OldSelf)
    /\ Containers(Self) = at_delete
    /\ at_delete.decommitted_code_hashes # EmptyMap

\* the same call on the same oracle in the other mode
InOtherMode == decommit_into_memory(OldSelf, ~B, ret.hash, ret.page, ret.t)

\* C19: decommit_into_memory returns the word sequence of the bytecode if and
\* only if the oracle is in witness mode (B) and the decommit is fresh; in
\* non-witness mode and on a repeat decommit it returns none; the memory
\* writes issued, and the oracle left behind, are the same in both modes.
C19_WitnessModeReturnsWords ==
    ret.op = "decommit" =>
        /\ ret.words # <<>> <=> (B /\ ret.is_fresh)
        /\ ret.words # <<>> => ret.words = <<ResolvedBytecode(ret.hash)>>
        /\ ret.writes = InOtherMode.writes
        /\ Self = InOtherMode.self
        /\ ret.is_fresh = InOtherMode.is_fresh

\* C19 witness: in witness mode a fresh decommit returned the two words it
\* wrote, where the other mode returns none.
C19_Witness ==
    /\ B
    /\ ret.op = "decommit"
    /\ ret.is_fresh
    /\ Len(ret.words) = 1
    /\ ret.words[1] = WrittenWords
    /\ Len(WrittenWords) = 2
    /\ InOtherMode.words = <<>>

\* C20: a repeat decommit returns the page the earlier fresh decommit of the
\* hash recorded, whatever page the request names, and leaves
\* decommitted_code_hashes, known_bytecodes and their logs as they were; so a
\* decommitted hash keeps the page of its fresh decommit.
C20_RepeatReturnsRecordedPage ==
    /\ (ret.op = "decommit" /\ ret.hash \in DOMAIN old.decommitted_code_hashes.inner)
           => /\ ret.returned
              /\ ~ret.is_fresh
              /\ ret.memory_page = old.decommitted_code_hashes.inner[ret.hash]
              /\ ret.memory_page = fresh_at[ret.hash].page
              /\ decommitted_code_hashes = old.decommitted_code_hashes
              /\ known_bytecodes = old.known_bytecodes
    /\ \A h \in DOMAIN decommitted_code_hashes.inner :
           /\ h \in DOMAIN fresh_at
           /\ decommitted_code_hashes.inner[h] = fresh_at[h].page

\* C20 witness: a later request named page 2 for a hash whose fresh decommit
\* had recorded page 1, and page 1 came back.
C20_Witness ==
    /\ ret.op = "decommit"
    /\ ~ret.is_fresh
    /\ ret.returned
    /\ ret.page = 2
    /\ ret.memory_page = 1
    /\ fresh_at[ret.hash] = [t |-> 0, page |-> 1]
    /\ ret.t = 1
    /\ decommitted_code_hashes.inner[ret.hash] = 1

\* ---------------------------------- C21: decommitted hashes stay resolvable
DecommittedHashes(o) == DOMAIN o.decommitted_code_hashes.inner
KnownHashes(o) == DOMAIN o.known_bytecodes.inner

\* C21: in every state reachable by populate, decommit, rollback_to_timestamp
\* and delete_history at non-decreasing call timestamps, every hash in
\* decommitted_code_hashes is a key of known_bytecodes; a rollback that evicts
\* a cached bytecode evicts it only for a hash that is no longer decommitted.
C21_DecommittedAreKnown ==
    /\ DecommittedHashes(Self) \subseteq KnownHashes(Self)
    /\ ret.op = "rollback" =>
           (KnownHashes(OldSelf) \ KnownHashes(Self)) \cap DecommittedHashes(Self) = {}

\* C21 witness: a rollback evicted the cached bytecode of one hash and its
\* decommit, while another hash stayed decommitted and cached.
C21_Witness ==
    /\ ret.op = "rollback"
    /\ KnownHashes(OldSelf) \ KnownHashes(Self) # {}
    /\ DecommittedHashes(OldSelf) \ DecommittedHashes(Self) # {}
    /\ DecommittedHashes(Self) # {}
    /\ DecommittedHashes(Self) \subseteq KnownHashes(Self)

====
